---- MODULE Spec2Model ----
(***************************************************************************)
(* Model of zxtools/hobeta.py: the Hobeta header codec (calc_checksum,     *)
(* parse_info) and the two commands built on it (show_info, strip_header). *)
(*                                                                         *)
(* One run of the program is one command on one input file.  The state is  *)
(* the input file, the command's arguments, the position in the code (pc), *)
(* the local variables of the functions, the two file objects and what has *)
(* been written and printed.                                               *)
(*                                                                         *)
(* Representation of file contents.  The first 17 bytes of the input (the  *)
(* header region) are explicit byte values.  The code never looks at the   *)
(* value of a byte beyond the header: it only moves such bytes from the    *)
(* source to the sink.  A block of bytes read from the source is therefore *)
(* written as an extent [off, len]: "the len bytes of the input that start *)
(* at offset off", and the sink is the sequence of the blocks written to   *)
(* it, in order.  This keeps files larger than the 512 KiB copy buffer     *)
(* within reach.                                                           *)
(***************************************************************************)
EXTENDS Integers, Sequences, FiniteSets, TLC

VARIABLES
    hobeta_file,      \* the input file: [head: its first <= 17 bytes, size: its size]
    func,             \* parsed_args.func: "show_info" or "strip_header"
    ignore_header,    \* parsed_args.ignore_header
    pc,               \* position in the code
    err,              \* the exception that ended the run, "none" if none
    pos,              \* read cursor of the input file object
    src_file,         \* input file object: "open" or "closed"
    dst_file,         \* output file object: "open", "closed", "absent" (show_info)
    sink,             \* contents of the output file: the blocks written, in order
    data,             \* parse_info: data
    actual_check_sum, \* parse_info: actual_check_sum
    header,           \* the Header named tuple (parse_info's, then the caller's)
    crc,              \* the caller's crc
    warned,           \* strip_header printed the checksum warning
    hobeta_file_size, \* strip_header: hobeta_file_size
    bytes_to_copy,    \* strip_header: bytes_to_copy
    length,           \* strip_header: length
    chunk_size,       \* strip_header: chunk_size
    block,            \* strip_header: data (the block read in the copy loop)
    result,           \* strip_header's return value
    printed,          \* what the command printed on success
    short_reads       \* reads that returned fewer bytes than were available

vars == <<hobeta_file, func, ignore_header, pc, err, pos, src_file, dst_file,
          sink, data, actual_check_sum, header, crc, warned, hobeta_file_size,
          bytes_to_copy, length, chunk_size, block, result, printed,
          short_reads>>

----------------------------------------------------------------------------
(* Bounds of the model *)

\* how many reads of one run may return fewer bytes than are available
MaxShortReads == 2

----------------------------------------------------------------------------
(* Values *)

Min(a, b) == IF a <= b THEN a ELSE b

\* Python's None for the integer-valued locals
None == 0 - 1

\* the block a local holds before anything was read into it
NoBlock == [off |-> 0, len |-> 0]

\* the Header local before a header was decoded
NoHeader == [filename |-> <<>>, filetype |-> None, start |-> None,
             length |-> None, first_sector |-> None,
             occupied_sectors |-> None, check_sum |-> None]

\* what a command printed before it printed anything
NoReport == [kind |-> "nothing"]

----------------------------------------------------------------------------
(* struct: the format string and the two functions the program uses *)

\* HEADER_FMT = '<8sBHHBBH': byte order, then (repeat count, code) items
HEADER_FMT_BigEndian ==
    [order |-> ">",
     items |-> << [n |-> 8, c |-> "s"], [n |-> 1, c |-> "B"],
                  [n |-> 1, c |-> "H"], [n |-> 1, c |-> "H"],
                  [n |-> 1, c |-> "B"], [n |-> 1, c |-> "B"],
                  [n |-> 1, c |-> "H"] >>]

HEADER_FMT ==
    [order |-> "<",
     items |-> << [n |-> 8, c |-> "s"], [n |-> 1, c |-> "B"],
                  [n |-> 1, c |-> "H"], [n |-> 1, c |-> "H"],
                  [n |-> 1, c |-> "B"], [n |-> 1, c |-> "B"],
                  [n |-> 1, c |-> "H"] >>]

\* bytes one item occupies ("<": standard sizes, no alignment)
ItemSize(it) ==
    CASE it.c = "s" -> it.n
      [] it.c = "B" -> it.n
      [] it.c = "H" -> 2 * it.n

\* offset just past the first k items
RECURSIVE EndOffset(_, _)
EndOffset(fmt, k) ==
    IF k = 0 THEN 0
    ELSE EndOffset(fmt, k - 1) + ItemSize(fmt.items[k])

\* struct.calcsize(fmt)
calcsize(fmt) == EndOffset(fmt, Len(fmt.items))

\* the value of one item from its bytes
UnpackItem(order, it, bytes) ==
    CASE it.c = "s" -> bytes
      [] it.c = "B" -> bytes[1]
      [] it.c = "H" -> IF order = "<"
                       THEN bytes[1] + 256 * bytes[2]
                       ELSE 256 * bytes[1] + bytes[2]

\* struct.unpack_from(fmt, data) for a buffer of at least calcsize(fmt) bytes
unpack_from(fmt, buf) ==
    [k \in 1..Len(fmt.items) |->
        UnpackItem(fmt.order, fmt.items[k],
                   SubSeq(buf, EndOffset(fmt, k - 1) + 1, EndOffset(fmt, k)))]

\* Header._make(values): the named tuple's fields, in the order of line 31
Header_make(values) ==
    [filename |-> values[1], filetype |-> values[2], start |-> values[3],
     length |-> values[4], first_sector |-> values[5],
     occupied_sectors |-> values[6], check_sum |-> values[7]]

----------------------------------------------------------------------------
(* calc_checksum *)

\* numpy.uint16(x) for x >= 0: the low 16 bits.  (The sum handed to it is a
\* wider integer: under the value-based casting of the numpy releases the
\* program was written for, uint16 + int widens before numpy.uint16 cuts it.)
uint16_Saturating(x) == IF x > 65535 THEN 65535 ELSE x

uint16(x) == x % 65536

\* what one byte adds to the sum: value*257 + i
ChecksumTerm_IndexScaled(value, i) == value * (257 + i)

ChecksumTerm(value, i) == value * 257 + i

\* the loop of calc_checksum from index i on, check_sum being the sum so far
RECURSIVE ChecksumLoop(_, _, _)
ChecksumLoop(bytes, i, check_sum) ==
    IF i >= Len(bytes) THEN check_sum
    ELSE ChecksumLoop(bytes, i + 1,
                      uint16(check_sum + ChecksumTerm(bytes[i + 1], i)))

calc_checksum(bytes) == ChecksumLoop(bytes, 0, 0)

\* Python's bytes[0:stop]
Slice0(bytes, stop) == SubSeq(bytes, 1, Min(stop, Len(bytes)))

----------------------------------------------------------------------------
(* The file objects *)

\* buf_size = 512*1024 and header_size = struct.calcsize(HEADER_FMT)
buf_size == 512 * 1024

header_size == calcsize(HEADER_FMT)

\* hobeta_file.read(n) in the header region: the bytes from the cursor on,
\* at most n of them, fewer at the end of the file
ReadHead(f, at, n) == SubSeq(f.head, at + 1, Min(at + n, Len(f.head)))

\* how many bytes one read(n) of the copy loop may return when avail bytes
\* are left: all it can, or (argparse.FileType('rb', 0) gives a raw,
\* unbuffered file object, whose read may return fewer bytes than asked) one
\* byte only or one byte less; none only at the end of the file
ReadCounts(n, avail, shorts) ==
    {Min(n, avail)} \cup
    (IF Min(n, avail) > 1 /\ shorts < MaxShortReads
     THEN {1, Min(n, avail) - 1} ELSE {})

----------------------------------------------------------------------------
(* The inputs *)

FilenameSamples ==
    { <<84, 69, 83, 84, 70, 73, 76, 69>>,          \* "TESTFILE"
      <<255, 255, 255, 255, 255, 255, 255, 255>>,  \* not ASCII
      <<0, 0, 0, 0, 0, 0, 1, 200>> }

FiletypeSamples == {66, 35}                        \* 'B', '#'

StartSamples == { <<100, 0>>, <<52, 18>> }         \* 100, 0x1234

LengthSamples ==                                   \* 0, 1, 3, 256, 65535
    { <<0, 0>>, <<1, 0>>, <<3, 0>>, <<0, 1>>, <<255, 255>> }

SectorSamples == { <<3, 1>> }          \* first_sector, occupied_sectors

\* the 15 bytes the checksum covers
HeaderBodies ==
    { n \o <<t>> \o s \o l \o c :
        n \in FilenameSamples, t \in FiletypeSamples, s \in StartSamples,
        l \in LengthSamples, c \in SectorSamples }

\* a 16-bit value as the producer stores it
StoredLE(v) == << v % 256, v \div 256 >>

\* a header with the checksum its producer computes, or with another one
Headers ==
    { b \o StoredLE((calc_checksum(b) + d) % 65536) :
        b \in HeaderBodies, d \in {0, 1} }

\* sizes of the payload that follows a whole header
PayloadSizes ==
    {0, 1, 3, 4, 256, 257, 65535, buf_size - 1, buf_size, buf_size + 1,
     2 * buf_size + 1}

\* sizes of a file that ends inside the header
TruncatedSizes == {0, 1, 15, 16}

Files ==
    { [head |-> h, size |-> Len(h) + m] : h \in Headers, m \in PayloadSizes }
    \cup
    { [head |-> SubSeq(h, 1, n), size |-> n] :
        h \in Headers, n \in TruncatedSizes }

----------------------------------------------------------------------------
(* The state after parse_args: both files opened by argparse.FileType, the *)
(* output file truncated by mode 'wb'.                                     *)

Init ==
    /\ hobeta_file \in Files
    /\ \E c \in { <<"show_info", FALSE>>, <<"strip_header", FALSE>>,
                  <<"strip_header", TRUE>> } :
           /\ func = c[1]
           /\ ignore_header = c[2]
    /\ pc = "pi_read"
    /\ err = "none"
    /\ pos = 0
    /\ src_file = "open"
    /\ dst_file = IF func = "strip_header" THEN "open" ELSE "absent"
    /\ sink = <<>>
    /\ data = <<>>
    /\ actual_check_sum = None
    /\ header = NoHeader
    /\ crc = None
    /\ warned = FALSE
    /\ hobeta_file_size = None
    /\ bytes_to_copy = None
    /\ length = None
    /\ chunk_size = None
    /\ block = NoBlock
    /\ result = None
    /\ printed = NoReport
    /\ short_reads = 0

----------------------------------------------------------------------------
(* parse_info *)

\* line 48: data = hobeta_file.read(header_len)
PiRead ==
    /\ pc = "pi_read"
    /\ data' = ReadHead(hobeta_file, pos, header_size)
    /\ pos' = pos + Len(data')
    /\ pc' = "pi_checksum"
    /\ UNCHANGED <<hobeta_file, func, ignore_header, err, src_file, dst_file,
                   sink, actual_check_sum, header, crc, warned,
                   hobeta_file_size, bytes_to_copy, length, chunk_size, block,
                   result, printed, short_reads>>

\* line 48 raises: no with statement is active, nothing is closed
PiReadFail ==
    /\ pc = "pi_read"
    /\ pc' = "failed"
    /\ err' = "IOError"
    /\ UNCHANGED <<hobeta_file, func, ignore_header, pos, src_file, dst_file,
                   sink, data, actual_check_sum, header, crc, warned,
                   hobeta_file_size, bytes_to_copy, length, chunk_size, block,
                   result, printed, short_reads>>

\* line 50: actual_check_sum = calc_checksum(data[0:header_len-2])
PiChecksum ==
    /\ pc = "pi_checksum"
    /\ actual_check_sum' = calc_checksum(Slice0(data, header_size - 2))
    /\ pc' = "pi_unpack"
    /\ UNCHANGED <<hobeta_file, func, ignore_header, err, pos, src_file,
                   dst_file, sink, data, header, crc, warned,
                   hobeta_file_size, bytes_to_copy, length, chunk_size, block,
                   result, printed, short_reads>>

\* line 51 with the struct.error swallowed
PiUnpack_Swallow ==
    /\ pc = "pi_unpack"
    /\ header' = IF Len(data) < calcsize(HEADER_FMT) THEN header
                 ELSE Header_make(unpack_from(HEADER_FMT, data))
    /\ pc' = "pi_return"
    /\ UNCHANGED <<hobeta_file, func, ignore_header, err, pos, src_file,
                   dst_file, sink, data, actual_check_sum, crc, warned,
                   hobeta_file_size, bytes_to_copy, length, chunk_size, block,
                   result, printed, short_reads>>

\* line 51: header = Header._make(struct.unpack_from(HEADER_FMT, data));
\* unpack_from raises struct.error on a buffer shorter than the format
PiUnpack ==
    /\ pc = "pi_unpack"
    /\ IF Len(data) < calcsize(HEADER_FMT)
       THEN /\ pc' = "failed"
            /\ err' = "struct.error"
            /\ UNCHANGED header
       ELSE /\ header' = Header_make(unpack_from(HEADER_FMT, data))
            /\ pc' = "pi_return"
            /\ UNCHANGED err
    /\ UNCHANGED <<hobeta_file, func, ignore_header, pos, src_file, dst_file,
                   sink, data, actual_check_sum, crc, warned,
                   hobeta_file_size, bytes_to_copy, length, chunk_size, block,
                   result, printed, short_reads>>

\* line 54, received at line 59 or 79: header, crc = parse_info(...)
PiReturn ==
    /\ pc = "pi_return"
    /\ crc' = actual_check_sum
    /\ pc' = IF func = "show_info" THEN "si_print" ELSE "sh_verify"
    /\ UNCHANGED <<hobeta_file, func, ignore_header, err, pos, src_file,
                   dst_file, sink, data, actual_check_sum, header, warned,
                   hobeta_file_size, bytes_to_copy, length, chunk_size, block,
                   result, printed, short_reads>>

----------------------------------------------------------------------------
(* show_info *)

\* bytes.decode("ascii") succeeds on bytes below 128 only
IsAscii(bytes) == \A k \in 1..Len(bytes) : bytes[k] < 128

\* lines 61-72: the values the report is formatted from; the file is not
\* closed by show_info
InfoReport(h, c) ==
    [kind |-> "info",
     filename |-> h.filename,
     extension |-> h.filetype,
     start_label |-> IF h.filetype = 66 THEN "Prg LEN" ELSE "Place at",
     start |-> h.start,
     length |-> h.length,
     first_sector |-> h.first_sector,
     occupied_sectors |-> h.occupied_sectors,
     check_sum |-> h.check_sum,
     verdict |-> IF c = h.check_sum THEN "OK" ELSE "WRONG",
     should_be |-> c]

ShowPrint ==
    /\ pc = "si_print"
    /\ IF IsAscii(header.filename)
       THEN /\ printed' = InfoReport(header, crc)
            /\ pc' = "done"
            /\ UNCHANGED err
       ELSE /\ pc' = "failed"
            /\ err' = "UnicodeDecodeError"
            /\ UNCHANGED printed
    /\ UNCHANGED <<hobeta_file, func, ignore_header, pos, src_file, dst_file,
                   sink, data, actual_check_sum, header, crc, warned,
                   hobeta_file_size, bytes_to_copy, length, chunk_size, block,
                   result, short_reads>>

----------------------------------------------------------------------------
(* strip_header *)

\* lines 80-81: the warning on a checksum mismatch; nothing else depends on it
ChecksumWrong(h, c) == h.check_sum # c

\* lines 80-81 refusing a header whose checksum is wrong
StripVerify_Gating ==
    /\ pc = "sh_verify"
    /\ warned' = ChecksumWrong(header, crc)
    /\ pc' = IF warned' THEN "failed" ELSE "sh_seek_end"
    /\ err' = IF warned' THEN "ValueError" ELSE err
    /\ UNCHANGED <<hobeta_file, func, ignore_header, pos, src_file,
                   dst_file, sink, data, actual_check_sum, header, crc,
                   hobeta_file_size, bytes_to_copy, length, chunk_size, block,
                   result, printed, short_reads>>

\* lines 80-81 without the warning
StripVerify_Silent ==
    /\ pc = "sh_verify"
    /\ pc' = "sh_seek_end"
    /\ UNCHANGED <<hobeta_file, func, ignore_header, err, pos, src_file,
                   dst_file, sink, data, actual_check_sum, header, crc,
                   warned, hobeta_file_size, bytes_to_copy, length,
                   chunk_size, block, result, printed, short_reads>>

StripVerify ==
    /\ pc = "sh_verify"
    /\ warned' = ChecksumWrong(header, crc)
    /\ pc' = "sh_seek_end"
    /\ UNCHANGED <<hobeta_file, func, ignore_header, err, pos, src_file,
                   dst_file, sink, data, actual_check_sum, header, crc,
                   hobeta_file_size, bytes_to_copy, length, chunk_size, block,
                   result, printed, short_reads>>

\* lines 86-88: with ... as src_file; seek(0, SEEK_END); tell()
StripSeekEnd ==
    /\ pc = "sh_seek_end"
    /\ pos' = hobeta_file.size
    /\ hobeta_file_size' = pos'
    /\ pc' = "sh_budget"
    /\ UNCHANGED <<hobeta_file, func, ignore_header, err, src_file, dst_file,
                   sink, data, actual_check_sum, header, crc, warned,
                   bytes_to_copy, length, chunk_size, block, result, printed,
                   short_reads>>

\* lines 87-88 or 96 raise inside the outer with only: the source is closed,
\* the output file's with statement was never entered
StripSeekFail ==
    /\ pc \in {"sh_seek_end", "sh_seek_header"}
    /\ src_file' = "closed"
    /\ pc' = "failed"
    /\ err' = "IOError"
    /\ UNCHANGED <<hobeta_file, func, ignore_header, pos, dst_file, sink,
                   data, actual_check_sum, header, crc, warned,
                   hobeta_file_size, bytes_to_copy, length, chunk_size, block,
                   result, printed, short_reads>>

\* lines 89-92: the byte budget
BytesToCopy_FlagIgnored(ignore, file_size, h) == h.length

BytesToCopy(ignore, file_size, h) ==
    IF ignore THEN file_size - header_size ELSE h.length

\* lines 89-95
StripBudget ==
    /\ pc = "sh_budget"
    /\ bytes_to_copy' = BytesToCopy(ignore_header, hobeta_file_size, header)
    /\ length' = bytes_to_copy'
    /\ pc' = "sh_seek_header"
    /\ UNCHANGED <<hobeta_file, func, ignore_header, err, pos, src_file,
                   dst_file, sink, data, actual_check_sum, header, crc,
                   warned, hobeta_file_size, chunk_size, block, result,
                   printed, short_reads>>

\* lines 96-97: src_file.seek(header_size); with ... as dst_file
StripSeekHeader ==
    /\ pc = "sh_seek_header"
    /\ pos' = header_size
    /\ pc' = "loop_test"
    /\ UNCHANGED <<hobeta_file, func, ignore_header, err, src_file, dst_file,
                   sink, data, actual_check_sum, header, crc, warned,
                   hobeta_file_size, bytes_to_copy, length, chunk_size, block,
                   result, printed, short_reads>>

\* line 98: while length
LoopTest ==
    /\ pc = "loop_test"
    /\ pc' = IF length # 0 THEN "loop_read" ELSE "sh_close"
    /\ UNCHANGED <<hobeta_file, func, ignore_header, err, pos, src_file,
                   dst_file, sink, data, actual_check_sum, header, crc,
                   warned, hobeta_file_size, bytes_to_copy, length,
                   chunk_size, block, result, printed, short_reads>>

\* line 99: chunk_size = min(buf_size, length)
ChunkSize_Unbounded(len) == len

ChunkSize(len) == Min(buf_size, len)

\* lines 99-100: data = src_file.read(chunk_size)
LoopRead ==
    /\ pc = "loop_read"
    /\ chunk_size' = ChunkSize(length)
    /\ \E k \in ReadCounts(chunk_size', hobeta_file.size - pos, short_reads) :
           /\ block' = [off |-> pos, len |-> k]
           /\ pos' = pos + k
           /\ short_reads' =
                  IF k < Min(chunk_size', hobeta_file.size - pos)
                  THEN short_reads + 1 ELSE short_reads
    /\ pc' = "loop_write"
    /\ UNCHANGED <<hobeta_file, func, ignore_header, err, src_file, dst_file,
                   sink, data, actual_check_sum, header, crc, warned,
                   hobeta_file_size, bytes_to_copy, length, result, printed>>

\* line 104: length -= len(data)
Remaining_ByChunk(len, blk, chunk) == len - chunk

Remaining(len, blk, chunk) == len - blk.len

\* lines 101-104: break at the end of the source, else write and count
LoopWrite ==
    /\ pc = "loop_write"
    /\ IF block.len = 0
       THEN /\ pc' = "sh_close"
            /\ UNCHANGED <<sink, length>>
       ELSE /\ sink' = Append(sink, block)
            /\ length' = Remaining(length, block, chunk_size)
            /\ pc' = "loop_test"
    /\ UNCHANGED <<hobeta_file, func, ignore_header, err, pos, src_file,
                   dst_file, data, actual_check_sum, header, crc, warned,
                   hobeta_file_size, bytes_to_copy, chunk_size, block, result,
                   printed, short_reads>>

\* line 100 or 103 raises inside both with statements: both files are closed
LoopFail ==
    /\ pc \in {"loop_read", "loop_write"}
    /\ pc = "loop_write" => block.len # 0
    /\ dst_file' = "closed"
    /\ src_file' = "closed"
    /\ pc' = "failed"
    /\ err' = "IOError"
    /\ UNCHANGED <<hobeta_file, func, ignore_header, pos, sink, data,
                   actual_check_sum, header, crc, warned, hobeta_file_size,
                   bytes_to_copy, length, chunk_size, block, result, printed,
                   short_reads>>

\* the with statements of lines 97 and 86 end: both files are closed
StripClose ==
    /\ pc = "sh_close"
    /\ dst_file' = "closed"
    /\ src_file' = "closed"
    /\ pc' = "sh_report"
    /\ UNCHANGED <<hobeta_file, func, ignore_header, err, pos, sink, data,
                   actual_check_sum, header, crc, warned, hobeta_file_size,
                   bytes_to_copy, length, chunk_size, block, result, printed,
                   short_reads>>

\* lines 105-107: report and return bytes_to_copy-length
StripReturn ==
    /\ pc = "sh_report"
    /\ printed' = [kind |-> "created", copied |-> bytes_to_copy - length]
    /\ result' = bytes_to_copy - length
    /\ pc' = "done"
    /\ UNCHANGED <<hobeta_file, func, ignore_header, err, pos, src_file,
                   dst_file, sink, data, actual_check_sum, header, crc,
                   warned, hobeta_file_size, bytes_to_copy, length,
                   chunk_size, block, short_reads>>

----------------------------------------------------------------------------

Next ==
    \/ PiRead
    \/ PiReadFail
    \/ PiChecksum
    \/ PiUnpack
    \/ PiReturn
    \/ ShowPrint
    \/ StripVerify
    \/ StripSeekEnd
    \/ StripSeekFail
    \/ StripBudget
    \/ StripSeekHeader
    \/ LoopTest
    \/ LoopRead
    \/ LoopWrite
    \/ LoopFail
    \/ StripClose
    \/ StripReturn

Spec == Init /\ [][Next]_vars

----------------------------------------------------------------------------
(* Vocabulary of the properties *)

\* the run has ended, by a return or by an exception
Terminal == pc \in {"done", "failed"}

\* the fields of the input as the format's producer laid them out
RawByte(k) == hobeta_file.head[k + 1]              \* byte at offset k

RawLength == RawByte(11) + 256 * RawByte(12)

RawCheckSum == RawByte(15) + 256 * RawByte(16)

\* bytes that follow the header in the input
PayloadSize == hobeta_file.size - 17

\* the sum of b_i*257 + i over the first n bytes, in unbounded integers
RECURSIVE PlainSum(_, _)
PlainSum(bytes, n) ==
    IF n = 0 THEN 0
    ELSE PlainSum(bytes, n - 1) + bytes[n] * 257 + (n - 1)

\* bytes with the ones at (1-based) places i and j exchanged
Swapped(bytes, i, j) ==
    [k \in 1..Len(bytes) |->
        IF k = i THEN bytes[j] ELSE IF k = j THEN bytes[i] ELSE bytes[k]]

\* number of bytes in the sink
RECURSIVE SinkLen(_)
SinkLen(blocks) ==
    IF blocks = <<>> THEN 0
    ELSE SinkLen(SubSeq(blocks, 1, Len(blocks) - 1)) + blocks[Len(blocks)].len

\* the sink holds exactly the first n bytes of the payload, in order: its
\* blocks are non-empty, start at offset 17 and follow one another without
\* gap or overlap, n bytes in all
SinkIsPayloadPrefix(blocks, n) ==
    /\ SinkLen(blocks) = n
    /\ \A k \in 1..Len(blocks) :
           /\ blocks[k].len > 0
           /\ blocks[k].off = 17 + SinkLen(SubSeq(blocks, 1, k - 1))

\* the 15 bytes parse_info hands to calc_checksum
Summed == Slice0(data, 15)

\* calc_checksum has just returned to parse_info (line 50 is done)
ChecksumReturned == pc = "pi_unpack"

----------------------------------------------------------------------------
(* C1 *)

\* C1 as stated: calc_checksum is order-sensitive -- exchanging two bytes
\* of different value at different places of a 15-byte input changes the
\* checksum.
C1_OrderSensitive ==
    (ChecksumReturned /\ Len(Summed) = 15) =>
        \A i, j \in 1..15 :
            (i # j /\ Summed[i] # Summed[j]) =>
                calc_checksum(Swapped(Summed, i, j)) # actual_check_sum

\* C1 as amended: calc_checksum is not order-sensitive -- exchanging the
\* bytes at any two places of a 15-byte input leaves the checksum unchanged.
C1_OrderInsensitive ==
    (ChecksumReturned /\ Len(Summed) = 15) =>
        \A i, j \in 1..15 :
            calc_checksum(Swapped(Summed, i, j)) = actual_check_sum

C1_Witness ==
    /\ ChecksumReturned
    /\ Len(Summed) = 15
    /\ \E i, j \in 1..15 :
           /\ Summed[i] # Summed[j]
           /\ calc_checksum(Swapped(Summed, i, j)) = actual_check_sum

----------------------------------------------------------------------------
(* C2 *)

\* C2: the checksum is the fold acc' = (acc + b*257 + i) mod 65536 from 0:
\* each prefix's checksum follows from the previous one by that step, the
\* result lies in 0..65535 and equals the unbounded sum of b_i*257 + i
\* reduced modulo 65536, also when partial sums pass 65535.
C2_FoldMod65536 ==
    ChecksumReturned =>
        /\ actual_check_sum \in 0..65535
        /\ actual_check_sum = PlainSum(Summed, Len(Summed)) % 65536
        /\ calc_checksum(<<>>) = 0
        /\ \A n \in 0..(Len(Summed) - 1) :
               calc_checksum(SubSeq(Summed, 1, n + 1)) =
                   (calc_checksum(SubSeq(Summed, 1, n))
                        + Summed[n + 1] * 257 + n) % 65536

\* a checksum was computed whose partial sums passed 65535 more than once
C2_Witness ==
    /\ ChecksumReturned
    /\ PlainSum(Summed, Len(Summed)) > 2 * 65536
    /\ \E n \in 1..(Len(Summed) - 1) :
           calc_checksum(SubSeq(Summed, 1, n)) + Summed[n + 1] * 257 + n > 65535

----------------------------------------------------------------------------
(* C3 *)

\* C3: when a command has ended, by a return or by an exception, the input
\* file and the output file are closed.
C3_ClosedOnEveryExit ==
    Terminal => (src_file = "closed" /\ dst_file \in {"closed", "absent"})

----------------------------------------------------------------------------
(* C4 *)

\* C4 as amended: on an input of fewer than 17 bytes parse_info ends with
\* struct.error (unless the read itself failed); no Header is built, no
\* header and no checksum reach the caller, nothing is printed or returned
\* and nothing is written to the sink.
C4_TruncatedFails ==
    hobeta_file.size < 17 =>
        /\ pc \in {"pi_read", "pi_checksum", "pi_unpack", "failed"}
        /\ pc = "failed" => err \in {"struct.error", "IOError"}
        /\ (pc = "failed" /\ data # <<>>) => err = "struct.error"
        /\ header = NoHeader
        /\ crc = None
        /\ result = None
        /\ printed = NoReport
        /\ sink = <<>>

\* C4 as stated: in addition, no checksum is computed from the partial bytes.
C4_NothingComputed ==
    hobeta_file.size < 17 => (C4_TruncatedFails /\ actual_check_sum = None)

\* strip_header on a 16-byte input has failed in the decode
C4_Witness ==
    /\ hobeta_file.size = 16
    /\ func = "strip_header"
    /\ pc = "failed"
    /\ err = "struct.error"
    /\ Len(data) = 16

----------------------------------------------------------------------------
(* C5 *)

\* strip_header has ended on an input with a whole header and no I/O call
\* raised
StripEnded ==
    /\ func = "strip_header"
    /\ Terminal
    /\ err # "IOError"
    /\ hobeta_file.size >= 17

\* C5: without ignore_header, on 17 header bytes declaring length L followed
\* by M payload bytes, strip_header returns min(L, M) without failing and
\* the sink holds exactly the first min(L, M) payload bytes in order.
C5_DeclaredLength ==
    (StripEnded /\ ~ignore_header) =>
        /\ pc = "done"
        /\ err = "none"
        /\ result = Min(RawLength, PayloadSize)
        /\ SinkIsPayloadPrefix(sink, Min(RawLength, PayloadSize))

\* a short source: fewer payload bytes than declared, all of them copied
C5_Witness ==
    /\ StripEnded
    /\ ~ignore_header
    /\ pc = "done"
    /\ 0 < PayloadSize
    /\ PayloadSize < RawLength
    /\ result = PayloadSize

----------------------------------------------------------------------------
(* C6 *)

\* C6: with ignore_header, on an input of S >= 17 bytes strip_header returns
\* S - 17 whatever the header's length field says, and the sink holds all
\* the bytes after the header.
C6_IgnoreHeader ==
    (StripEnded /\ ignore_header) =>
        /\ pc = "done"
        /\ result = hobeta_file.size - 17
        /\ SinkIsPayloadPrefix(sink, hobeta_file.size - 17)

\* more was copied than the header declares
C6_Witness ==
    /\ StripEnded
    /\ ignore_header
    /\ pc = "done"
    /\ result > RawLength
    /\ RawLength > 0

----------------------------------------------------------------------------
(* C7 *)

\* what a fault-free run on a whole header ends with, from everything but
\* the two stored check_sum bytes (offsets 15 and 16)
ExpectedCount ==
    IF ignore_header THEN PayloadSize ELSE Min(RawLength, PayloadSize)

\* C7: a checksum mismatch never gates processing.  How a run ends, what
\* strip_header returns and what the sink holds are a function of the input
\* without its two check_sum bytes, so two inputs that differ in those bytes
\* only end alike; show_info fails on a filename that is not ASCII only.
C7_MismatchNeverGates ==
    (Terminal /\ err # "IOError" /\ hobeta_file.size >= 17) =>
        IF func = "strip_header"
        THEN /\ pc = "done"
             /\ result = ExpectedCount
             /\ SinkIsPayloadPrefix(sink, ExpectedCount)
        ELSE /\ pc = "done" <=> IsAscii(SubSeq(hobeta_file.head, 1, 8))
             /\ pc = "done" => printed.kind = "info"

\* strip_header warned about the checksum and copied the payload all the same
C7_Witness ==
    /\ StripEnded
    /\ pc = "done"
    /\ warned
    /\ RawCheckSum # PlainSum(hobeta_file.head, 15) % 65536
    /\ result > 0
    /\ sink # <<>>

----------------------------------------------------------------------------
(* C8 *)

\* C8: on 17 bytes parse_info does not fail and returns the fields of the
\* little-endian layout without padding; the checksum it returns is the one
\* of bytes 0..14 and so does not depend on bytes 15 and 16.
C8_Layout ==
    /\ hobeta_file.size >= 17 => err # "struct.error"
    /\ (hobeta_file.size >= 17 /\ pc = "pi_return") =>
           /\ Len(data) = 17
           /\ header.filename = SubSeq(hobeta_file.head, 1, 8)
           /\ header.filetype = RawByte(8)
           /\ header.start = RawByte(9) + 256 * RawByte(10)
           /\ header.length = RawByte(11) + 256 * RawByte(12)
           /\ header.first_sector = RawByte(13)
           /\ header.occupied_sectors = RawByte(14)
           /\ header.check_sum = RawByte(15) + 256 * RawByte(16)
           /\ actual_check_sum = PlainSum(hobeta_file.head, 15) % 65536
    /\ pc \in {"si_print", "sh_verify"} =>
           (crc = actual_check_sum /\ header # NoHeader)

\* a header was decoded whose 16-bit fields have two different bytes
C8_Witness ==
    /\ pc = "pi_return"
    /\ header.start = 4660
    /\ header.length = 256
    /\ header.filetype = 66
    /\ header.check_sum = actual_check_sum

----------------------------------------------------------------------------
(* C9 *)

\* C9: no byte is written to the sink before the header was read and
\* decoded, the checksum computed and the warning, if due, printed.
C9_DecodeBeforeCopy ==
    sink # <<>> =>
        /\ Len(data) = 17
        /\ header # NoHeader
        /\ actual_check_sum # None
        /\ crc = actual_check_sum
        /\ RawCheckSum # PlainSum(hobeta_file.head, 15) % 65536 => warned

\* the first block is in the sink, after the warning
C9_Witness ==
    /\ Len(sink) = 1
    /\ warned
    /\ pc = "loop_test"

----------------------------------------------------------------------------
(* C10 *)

\* C10: in the copy loop, bytes written + remaining length = bytes_to_copy,
\* the remaining length is never negative, each read asks for
\* min(524288, remaining) bytes and gets no more, and the sink holds the
\* prefix of the payload of the length written so far.
C10_CopyLoop ==
    pc \in {"loop_test", "loop_read", "loop_write"} =>
        /\ SinkLen(sink) + length = bytes_to_copy
        /\ length >= 0
        /\ SinkIsPayloadPrefix(sink, SinkLen(sink))
        /\ pos = 17 + SinkLen(sink) + (IF pc = "loop_write" THEN block.len ELSE 0)
        /\ pc = "loop_write" =>
               /\ chunk_size = Min(524288, length)
               /\ block.len <= chunk_size
               /\ block.off = 17 + SinkLen(sink)

\* a full buffer was asked for after an earlier block, and a short block came
C10_Witness ==
    /\ pc = "loop_write"
    /\ sink # <<>>
    /\ length > 524288
    /\ chunk_size = 524288
    /\ block.len = 1

====
